---- MODULE Spec2Model ----
(***************************************************************************)
(* A model of the one-euro crate (1-euro filter): the smoothing factor     *)
(* (alpha.rs), the low-pass primitive (lowpass.rs), the adaptive state     *)
(* (state.rs) and the parameter holder (filter.rs).                        *)
(*                                                                         *)
(* The crate is generic over T: RealField.  T is modelled by exact         *)
(* rationals <<n, d>> in lowest terms with d > 0, extended the way IEEE    *)
(* floats extend the reals: <<1, 0>> is +inf, <<-1, 0>> is -inf and        *)
(* <<0, 0>> is NaN.  Rounding and the sign of zero are not modelled.       *)
(* A panic (a failed assert!) is modelled by ok = FALSE in the result of   *)
(* the operation; the object keeps the fields it had when the assert       *)
(* failed.                                                                 *)
(***************************************************************************)
EXTENDS Integers, Sequences, FiniteSets, TLC

VARIABLES flt, st, call, steps, sets, fed

vars == <<flt, st, call, steps, sets, fed>>

(***************************************************************************)
(* Bounds                                                                  *)
(***************************************************************************)
\* updates applied to one OneEuroState
MaxSteps == 2

\* setter calls made on the OneEuroFilter that drives a state
MaxSets == 2

\* the const generic D of SVector<T, D>
D == 2

(***************************************************************************)
(* T: RealField                                                            *)
(***************************************************************************)
IAbs(i) == IF i < 0 THEN -i ELSE i

ISign(i) == IF i < 0 THEN -1 ELSE IF i > 0 THEN 1 ELSE 0

RECURSIVE GCD(_, _)
GCD(a, b) == IF b = 0 THEN a ELSE GCD(b, a % b)

Norm(n, d) ==
    IF d = 0 THEN <<ISign(n), 0>>
    ELSE LET g == GCD(IAbs(n), IAbs(d))
         IN  <<(ISign(d) * n) \div g, IAbs(d) \div g>>

R(n) == <<n, 1>>

Zero == R(0)

One == R(1)

IsNaN(a) == a[1] = 0 /\ a[2] = 0

IsInf(a) == a[1] # 0 /\ a[2] = 0

IsFinite(a) == a[2] # 0

RAdd(a, b) ==
    IF IsNaN(a) \/ IsNaN(b) THEN <<0, 0>>
    ELSE IF IsInf(a) /\ IsInf(b) THEN (IF a[1] = b[1] THEN a ELSE <<0, 0>>)
    ELSE IF IsInf(a) THEN a
    ELSE IF IsInf(b) THEN b
    ELSE LET g == GCD(a[2], b[2])
         IN  Norm(a[1] * (b[2] \div g) + b[1] * (a[2] \div g),
                  (a[2] \div g) * b[2])

RNeg(a) == <<-a[1], a[2]>>

RSub(a, b) == RAdd(a, RNeg(b))

\* finite factors are reduced crosswise before they are multiplied
RMul(a, b) ==
    IF IsFinite(a) /\ IsFinite(b)
    THEN LET g1 == GCD(IAbs(a[1]), b[2])
             g2 == GCD(IAbs(b[1]), a[2])
         IN  Norm((a[1] \div g1) * (b[1] \div g2),
                  (a[2] \div g2) * (b[2] \div g1))
    ELSE Norm(a[1] * b[1], a[2] * b[2])

\* a / b is a times the reciprocal of b; x / 0 is an infinity, 0 / 0 is NaN
RDiv(a, b) ==
    IF b[1] < 0 THEN RMul(a, <<-b[2], -b[1]>>)
    ELSE IF b[1] > 0 THEN RMul(a, <<b[2], b[1]>>)
    ELSE Norm(a[1] * b[2], 0)

RRecip(a) == RDiv(One, a)

RAbs(a) == <<IAbs(a[1]), a[2]>>

\* a < b; false when either is NaN
RLt(a, b) ==
    /\ ~IsNaN(a)
    /\ ~IsNaN(b)
    /\ IF IsInf(a) /\ IsInf(b) THEN a[1] < b[1]
       ELSE IF IsInf(a) THEN a[1] < 0
       ELSE IF IsInf(b) THEN b[1] > 0
       ELSE LET g == GCD(a[2], b[2])
            IN  a[1] * (b[2] \div g) < b[1] * (a[2] \div g)

RGt(a, b) == RLt(b, a)

\* a <= b; false when either is NaN
RLe(a, b) == ~IsNaN(a) /\ ~IsNaN(b) /\ ~RLt(b, a)

RGe(a, b) == RLe(b, a)

\* T::two_pi().  2 pi is irrational; the small rational 3 stands for it, so
\* that three updates in a row stay within the 32-bit integers of TLC
two_pi == <<3, 1>>

(***************************************************************************)
(* SVector<T, D>                                                           *)
(***************************************************************************)
Idx == 1..D

repeat(x) == [i \in Idx |-> x]

zeros == repeat(Zero)

VSub(u, v) == [i \in Idx |-> RSub(u[i], v[i])]

VAdd(u, v) == [i \in Idx |-> RAdd(u[i], v[i])]

scale(v, s) == [i \in Idx |-> RMul(v[i], s)]

component_mul(u, v) == [i \in Idx |-> RMul(u[i], v[i])]

VAbs(v) == [i \in Idx |-> RAbs(v[i])]

VNeg(v) == [i \in Idx |-> RNeg(v[i])]

add_scalar(v, s) == [i \in Idx |-> RAdd(v[i], s)]

(***************************************************************************)
(* alpha.rs                                                                *)
(***************************************************************************)
\* assert_positive!(value)
assert_positive(value) == RGt(value, Zero)

assert_alpha_closed(alpha) ==
    \A i \in Idx : RGe(alpha[i], Zero) /\ RLe(alpha[i], One)

\* assert_alpha!(alpha): every component positive and at most one
assert_alpha(alpha) ==
    \A i \in Idx : assert_positive(alpha[i]) /\ RLe(alpha[i], One)

\* the smoothing factor without the 1 + of the denominator
get_alpha_unchecked_without_one(rate, cutoff) ==
    RRecip(RDiv(rate, RMul(two_pi, cutoff)))

get_alpha_unchecked(rate, cutoff) ==
    RRecip(RAdd(One, RDiv(rate, RMul(two_pi, cutoff))))

get_alpha_accepts_zero_cutoff(rate, cutoff) ==
    IF assert_positive(rate) /\ RGe(cutoff, Zero)
    THEN [ok |-> TRUE, val |-> get_alpha_unchecked(rate, cutoff)]
    ELSE [ok |-> FALSE, val |-> <<0, 0>>]

get_alpha(rate, cutoff) ==
    IF assert_positive(rate) /\ assert_positive(cutoff)
    THEN [ok |-> TRUE, val |-> get_alpha_unchecked(rate, cutoff)]
    ELSE [ok |-> FALSE, val |-> <<0, 0>>]

(***************************************************************************)
(* lowpass.rs                                                              *)
(***************************************************************************)
\* the weights of current and previous exchanged
filter_unchecked_swapped(current, previous, alpha) ==
    VAdd(component_mul(previous, alpha),
         component_mul(current, add_scalar(VNeg(alpha), One)))

filter_unchecked(current, previous, alpha) ==
    VAdd(component_mul(current, alpha),
         component_mul(previous, add_scalar(VNeg(alpha), One)))

filter(current, previous, alpha) ==
    IF assert_alpha(alpha)
    THEN [ok |-> TRUE, val |-> filter_unchecked(current, previous, alpha)]
    ELSE [ok |-> FALSE, val |-> previous]

\* LowPassState::update: the state is assigned only when filter returns
LowPassState_update(self, raw, alpha) ==
    LET r == filter(raw, self, alpha)
    IN  [ok |-> r.ok, self |-> IF r.ok THEN r.val ELSE self]

LowPassState_update_unchecked(self, raw, alpha) ==
    filter_unchecked(raw, self, alpha)

(***************************************************************************)
(* state.rs                                                                *)
(***************************************************************************)
new_derivate_from_state(state) ==
    [raw |-> state, filtered |-> state, derivate |-> state]

new(state) == [raw |-> state, filtered |-> state, derivate |-> zeros]

get_cutoff(self, intercept, slope) ==
    add_scalar(scale(VAbs(self.derivate), slope), intercept)

update_unchecked(self, raw, alpha, rate, mincutoff, beta) ==
    LET d  == LowPassState_update_unchecked(
                  self.derivate, scale(VSub(raw, self.raw), rate), alpha)
        s1 == [self EXCEPT !.derivate = d]
        c  == get_cutoff(s1, mincutoff, beta)
        a  == [i \in Idx |-> get_alpha_unchecked(rate, c[i])]
    IN  [raw      |-> raw,
         filtered |-> LowPassState_update_unchecked(s1.filtered, raw, a),
         derivate |-> d]

\* update with the cutoff taken from the derivative before the call
update_stale_cutoff(self, raw, alpha, rate, mincutoff, beta) ==
    LET d == LowPassState_update(
                 self.derivate, scale(VSub(raw, self.raw), rate), alpha)
    IN  IF ~d.ok THEN [ok |-> FALSE, self |-> self]
        ELSE
          LET s1 == [self EXCEPT !.derivate = d.self]
              c  == get_cutoff(self, mincutoff, beta)
              a  == [i \in Idx |-> get_alpha(rate, c[i])]
          IN  IF \E i \in Idx : ~a[i].ok THEN [ok |-> FALSE, self |-> s1]
              ELSE [ok   |-> TRUE,
                    self |-> [raw      |-> raw,
                              filtered |-> LowPassState_update_unchecked(
                                               s1.filtered, raw,
                                               [i \in Idx |-> a[i].val]),
                              derivate |-> s1.derivate]]

\* the checked update: the derivative stage is updated (and its alpha
\* asserted) first; rate and the cutoff are asserted only afterwards by
\* get_alpha, component by component
update(self, raw, alpha, rate, mincutoff, beta) ==
    LET d == LowPassState_update(
                 self.derivate, scale(VSub(raw, self.raw), rate), alpha)
    IN  IF ~d.ok THEN [ok |-> FALSE, self |-> self]
        ELSE
          LET s1 == [self EXCEPT !.derivate = d.self]
              c  == get_cutoff(s1, mincutoff, beta)
              a  == [i \in Idx |-> get_alpha(rate, c[i])]
          IN  IF \E i \in Idx : ~a[i].ok THEN [ok |-> FALSE, self |-> s1]
              ELSE [ok   |-> TRUE,
                    self |-> [raw      |-> raw,
                              filtered |-> LowPassState_update_unchecked(
                                               s1.filtered, raw,
                                               [i \in Idx |-> a[i].val]),
                              derivate |-> s1.derivate]]

(***************************************************************************)
(* filter.rs                                                               *)
(***************************************************************************)
\* OneEuroFilter::get_alpha: the private vector form, without checks
OneEuroFilter_get_alpha(rate, cutoff) ==
    [i \in Idx |-> get_alpha_unchecked(rate, repeat(cutoff)[i])]

default_beta_zero ==
    [rate      |-> One,
     dcutoff   |-> One,
     mincutoff |-> One,
     beta      |-> Zero,
     alpha     |-> OneEuroFilter_get_alpha(One, One)]

default ==
    [rate      |-> One,
     dcutoff   |-> One,
     mincutoff |-> One,
     beta      |-> One,
     alpha     |-> OneEuroFilter_get_alpha(One, One)]

set_rate(self, value) ==
    IF ~assert_positive(value) THEN [ok |-> FALSE, self |-> self]
    ELSE LET s1 == [self EXCEPT !.rate = value]
         IN  [ok   |-> TRUE,
              self |-> [s1 EXCEPT
                          !.alpha = OneEuroFilter_get_alpha(s1.rate, s1.mincutoff)]]

set_dcutoff(self, value) ==
    IF ~assert_positive(value) THEN [ok |-> FALSE, self |-> self]
    ELSE LET s1 == [self EXCEPT !.dcutoff = value]
         IN  [ok   |-> TRUE,
              self |-> [s1 EXCEPT
                          !.alpha = OneEuroFilter_get_alpha(s1.rate, s1.dcutoff)]]

set_mincutoff_accepts_zero(self, value) ==
    IF ~RGe(value, Zero) THEN [ok |-> FALSE, self |-> self]
    ELSE [ok |-> TRUE, self |-> [self EXCEPT !.mincutoff = value]]

set_mincutoff(self, value) ==
    IF ~assert_positive(value) THEN [ok |-> FALSE, self |-> self]
    ELSE [ok |-> TRUE, self |-> [self EXCEPT !.mincutoff = value]]

set_beta(self, value) ==
    IF ~RGe(value, Zero) THEN [ok |-> FALSE, self |-> self]
    ELSE [ok |-> TRUE, self |-> [self EXCEPT !.beta = value]]

\* OneEuroFilter::filter: the unchecked update with the filter's parameters
OneEuroFilter_filter(self, state, raw) ==
    update_unchecked(state, raw, self.alpha, self.rate, self.mincutoff, self.beta)

(***************************************************************************)
(* Inputs                                                                  *)
(***************************************************************************)
\* arguments of set_dcutoff, set_mincutoff and set_beta
Values == {R(-1), Zero, One, R(2)}

\* arguments of set_rate
RateValues == {R(-1), Zero, One, R(2)}

\* samples fed to a state
Samples == {<<Zero, Zero>>, <<One, R(2)>>}

\* rate, mincutoff and beta handed to OneEuroState::update
Rates == {R(-1), Zero, two_pi}

MinCutoffs == {R(-1), One}

Betas == {R(-1), Zero, One}

\* derivative smoothing factors handed to OneEuroState::update
Alphas == {<<Norm(1, 2), One>>, <<Zero, Norm(1, 2)>>, <<Norm(1, 2), Norm(3, 2)>>}

\* T::INFINITY, a value of f32 and f64 that is > 0
Inf == <<1, 0>>

\* setter arguments, finite or +inf
ExtValues == Values \cup {Inf}

\* arguments of get_alpha
Scalars == {R(-2), R(-1), Zero, Norm(1, 2), One, R(2), R(3)}

\* smoothing factors handed to the low-pass filter function
AlphaArgs ==
    LET c == {Norm(-1, 2), Zero, Norm(1, 2), One, Norm(3, 2)}
    IN  {<<x, y>> : x \in c, y \in c}

(***************************************************************************)
(* Actions.  call records the last operation: its name, its arguments,     *)
(* whether it returned (ok) or panicked, and for an update the state it    *)
(* was applied to (pre).  steps and sets count the updates and the setter  *)
(* calls made; the specifications advance and bound them.  fed is the set  *)
(* of samples the state has taken in: the one it was constructed from and  *)
(* the raw sample of every update that returned.                           *)
(***************************************************************************)
Default ==
    /\ flt = default
    /\ call = [op |-> "default"]

SetRate(value) ==
    LET r == set_rate(flt, value)
    IN  /\ flt' = r.self
        /\ call' = [op |-> "set_rate", value |-> value, ok |-> r.ok]
        /\ UNCHANGED <<st, fed>>

SetDcutoff(value) ==
    LET r == set_dcutoff(flt, value)
    IN  /\ flt' = r.self
        /\ call' = [op |-> "set_dcutoff", value |-> value, ok |-> r.ok]
        /\ UNCHANGED <<st, fed>>

SetMincutoff(value) ==
    LET r == set_mincutoff(flt, value)
    IN  /\ flt' = r.self
        /\ call' = [op |-> "set_mincutoff", value |-> value, ok |-> r.ok]
        /\ UNCHANGED <<st, fed>>

SetBeta(value) ==
    LET r == set_beta(flt, value)
    IN  /\ flt' = r.self
        /\ call' = [op |-> "set_beta", value |-> value, ok |-> r.ok]
        /\ UNCHANGED <<st, fed>>

New(state) ==
    /\ st' = new(state)
    /\ call' = [op |-> "new", state |-> state]
    /\ fed' = {state}
    /\ UNCHANGED flt

UpdateCall(op, raw, alpha, rate, mincutoff, beta, ok) ==
    [op |-> op, raw |-> raw, alpha |-> alpha, rate |-> rate,
     mincutoff |-> mincutoff, beta |-> beta, ok |-> ok, pre |-> st]

Update(raw, alpha, rate, mincutoff, beta) ==
    LET r == update(st, raw, alpha, rate, mincutoff, beta)
    IN  /\ st' = r.self
        /\ call' = UpdateCall("update", raw, alpha, rate, mincutoff, beta, r.ok)
        /\ fed' = IF r.ok THEN fed \cup {raw} ELSE fed
        /\ UNCHANGED flt

\* # Safety of update_unchecked: each alpha in (0, 1], rate and mincutoff
\* positive, beta not negative; the callers modelled keep to it
UpdateUnchecked(raw, alpha, rate, mincutoff, beta) ==
    /\ assert_alpha(alpha)
    /\ assert_positive(rate)
    /\ assert_positive(mincutoff)
    /\ RGe(beta, Zero)
    /\ st' = update_unchecked(st, raw, alpha, rate, mincutoff, beta)
    /\ call' = UpdateCall("update_unchecked", raw, alpha, rate, mincutoff, beta, TRUE)
    /\ fed' = fed \cup {raw}
    /\ UNCHANGED flt

Filter(raw) ==
    /\ st' = OneEuroFilter_filter(flt, st, raw)
    /\ call' = UpdateCall("filter", raw, flt.alpha, flt.rate, flt.mincutoff,
                          flt.beta, TRUE)
    /\ fed' = fed \cup {raw}
    /\ UNCHANGED flt

\* a call of the free function alpha::get_alpha
GetAlpha(rate, cutoff) ==
    LET r == get_alpha(rate, cutoff)
    IN  /\ call' = [op |-> "get_alpha", rate |-> rate, cutoff |-> cutoff,
                    ok |-> r.ok, val |-> r.val]
        /\ UNCHANGED <<flt, st, fed>>

\* a call of the free function lowpass::filter
LowPassFilter(current, previous, alpha) ==
    LET r == filter(current, previous, alpha)
    IN  /\ call' = [op |-> "lowpass_filter", current |-> current,
                    previous |-> previous, alpha |-> alpha,
                    ok |-> r.ok, val |-> r.val]
        /\ UNCHANGED <<flt, st, fed>>

(***************************************************************************)
(* Specifications                                                          *)
(***************************************************************************)
\* the counters of a step that is a setter call, an update, or neither
Idle == UNCHANGED <<steps, sets>>

Configure == sets < MaxSets /\ sets' = sets + 1 /\ steps' = steps

Advance == steps < MaxSteps /\ steps' = steps + 1 /\ sets' = sets

\* the free functions get_alpha and filter on arguments from bounded sets
InitFn ==
    /\ Default
    /\ st = new(zeros)
    /\ fed = {zeros}
    /\ steps = 0
    /\ sets = 0

NextFn ==
    \/ \E r \in Scalars, c \in Scalars : GetAlpha(r, c) /\ Idle
    \/ \E c \in Samples, p \in Samples, a \in AlphaArgs :
           LowPassFilter(c, p, a) /\ Idle

SpecFn == InitFn /\ [][NextFn]_vars

\* the filter's parameters under any sequence of setter calls
InitFilter ==
    /\ Default
    /\ st = new(zeros)
    /\ fed = {zeros}
    /\ steps = 0
    /\ sets = 0

NextFilter ==
    \/ \E v \in RateValues : SetRate(v) /\ Idle
    \/ \E v \in Values : SetDcutoff(v) /\ Idle
    \/ \E v \in Values : SetMincutoff(v) /\ Idle
    \/ \E v \in Values : SetBeta(v) /\ Idle

SpecFilter == InitFilter /\ [][NextFilter]_vars

\* one OneEuroState under update and update_unchecked, at most MaxSteps
\* updates after each construction
InitState ==
    /\ flt = default
    /\ steps = 0
    /\ sets = 0
    /\ \E s \in Samples :
           st = new(s) /\ fed = {s} /\ call = [op |-> "new", state |-> s]

NextState ==
    \/ \E s \in Samples : New(s) /\ steps' = 0 /\ sets' = sets
    \/ \E raw \in Samples, a \in Alphas, r \in Rates, m \in MinCutoffs,
          b \in Betas : Advance /\ Update(raw, a, r, m, b)
    \/ \E raw \in Samples, a \in Alphas, r \in Rates, m \in MinCutoffs,
          b \in Betas : Advance /\ UpdateUnchecked(raw, a, r, m, b)

SpecState == InitState /\ [][NextState]_vars

\* a OneEuroFilter driving one OneEuroState: at most MaxSets setter calls
\* and MaxSteps filter() calls, in any order
Init ==
    /\ Default
    /\ steps = 0
    /\ sets = 0
    /\ \E s \in Samples : st = new(s) /\ fed = {s}

Next ==
    \/ \E v \in RateValues : Configure /\ SetRate(v)
    \/ \E v \in Values : Configure /\ SetDcutoff(v)
    \/ \E v \in Values : Configure /\ SetMincutoff(v)
    \/ \E v \in Values : Configure /\ SetBeta(v)
    \/ \E raw \in Samples : Advance /\ Filter(raw)

Spec == Init /\ [][Next]_vars

\* the same filter and state, with setter arguments that include +inf:
\* assert_positive!(value) and assert!(value >= 0) let +inf through
InitExt == Init

NextExt ==
    \/ \E v \in ExtValues : Configure /\ SetRate(v)
    \/ \E v \in ExtValues : Configure /\ SetDcutoff(v)
    \/ \E v \in ExtValues : Configure /\ SetMincutoff(v)
    \/ \E v \in ExtValues : Configure /\ SetBeta(v)
    \/ \E raw \in Samples : Advance /\ Filter(raw)

SpecExt == InitExt /\ [][NextExt]_vars

(***************************************************************************)
(* Properties                                                              *)
(***************************************************************************)
IsSetter(op) == op \in {"set_rate", "set_dcutoff", "set_mincutoff", "set_beta"}

\* C1: after any sequence of setter calls from the default filter, the
\* stored derivative smoothing factor equals alpha(rate, dcutoff) of the
\* current rate and dcutoff in every component.
C1_AlphaIsAlphaOfRateAndDcutoff ==
    \A i \in Idx : flt.alpha[i] = get_alpha_unchecked(flt.rate, flt.dcutoff)

\* C2: a filter that no setter was called on has rate = mincutoff =
\* dcutoff = 1 and beta = 0, so filter() smooths the sample with the
\* cutoff mincutoff whatever the derivative is.
C2_DefaultBetaIsZero ==
    sets = 0 =>
        /\ flt.rate = One /\ flt.mincutoff = One /\ flt.dcutoff = One
        /\ flt.beta = Zero
        /\ call.op = "filter" =>
               st.filtered = filter_unchecked(call.raw, call.pre.filtered,
                                 repeat(get_alpha_unchecked(flt.rate, flt.mincutoff)))

\* C2, amended: a filter that no setter was called on has rate =
\* mincutoff = dcutoff = 1 and beta = 1, so filter() smooths component i of
\* the sample with the cutoff mincutoff + |derivative[i]|.
C2_DefaultBetaIsOne ==
    sets = 0 =>
        /\ flt.rate = One /\ flt.mincutoff = One /\ flt.dcutoff = One
        /\ flt.beta = One
        /\ call.op = "filter" =>
               st.filtered = filter_unchecked(call.raw, call.pre.filtered,
                                 [i \in Idx |-> get_alpha_unchecked(flt.rate,
                                     RAdd(flt.mincutoff, RAbs(st.derivate[i])))])

\* C2, witness: filter() on an unconfigured filter with a derivative that is
\* not zero, where the adaptive cutoff and mincutoff give different results.
C2_Witness ==
    /\ sets = 0
    /\ call.op = "filter"
    /\ \E i \in Idx : st.derivate[i] # Zero
    /\ st.filtered # filter_unchecked(call.raw, call.pre.filtered,
                          repeat(get_alpha_unchecked(flt.rate, flt.mincutoff)))

\* C3: a checked operation that fails validation leaves all state
\* unmodified: after a rejected OneEuroState::update, raw, filtered and
\* derivate are what they were before the call.
C3_RejectedUpdateLeavesState ==
    (call.op = "update" /\ ~call.ok) => st = call.pre

\* C4: rate > 0, mincutoff > 0, dcutoff > 0 and beta >= 0 hold in every
\* state of the filter; set_rate, set_dcutoff and set_mincutoff reject
\* exactly the values <= 0, set_beta rejects exactly the values < 0, and an
\* accepted value is stored as given, never clamped.
C4_ParametersStayValid ==
    /\ RGt(flt.rate, Zero)
    /\ RGt(flt.mincutoff, Zero)
    /\ RGt(flt.dcutoff, Zero)
    /\ RGe(flt.beta, Zero)
    /\ call.op \in {"set_rate", "set_dcutoff", "set_mincutoff"} =>
           (call.ok <=> ~RLe(call.value, Zero))
    /\ call.op = "set_beta" => (call.ok <=> ~RLt(call.value, Zero))
    /\ (call.op = "set_rate" /\ call.ok) => flt.rate = call.value
    /\ (call.op = "set_dcutoff" /\ call.ok) => flt.dcutoff = call.value
    /\ (call.op = "set_mincutoff" /\ call.ok) => flt.mincutoff = call.value
    /\ (call.op = "set_beta" /\ call.ok) => flt.beta = call.value

\* C4, witness: every parameter was set away from its default, and the last
\* setter call was rejected.
C4_Witness ==
    /\ flt.rate # One /\ flt.mincutoff # One /\ flt.dcutoff # One
    /\ flt.beta = Zero
    /\ IsSetter(call.op)
    /\ ~call.ok

\* C5: a state constructed from a sample s reports raw() = s and data() = s
\* and has a smoothed derivative of zero in every component.
C5_NewState ==
    call.op = "new" =>
        /\ st.raw = call.state
        /\ st.filtered = call.state
        /\ \A i \in Idx : st.derivate[i] = Zero

\* C5, witness: a state constructed from a sample that is not zero.
C5_Witness ==
    /\ call.op = "new"
    /\ \A i \in Idx : call.state[i] # Zero

Half == Norm(1, 2)

\* what the low-pass filter returns at alpha = 1 and at alpha = 1/2
LowPassValues ==
    \A i \in Idx :
        /\ call.alpha[i] = One => call.val[i] = call.current[i]
        /\ call.alpha[i] = Half =>
               RAdd(call.val[i], call.val[i])
                   = RAdd(call.current[i], call.previous[i])

\* C6: the checked low-pass filter accepts every alpha whose components all
\* lie in the closed interval [0, 1] and fails for a component < 0 or > 1; it
\* returns previous for alpha = 0, current for alpha = 1 and
\* (current + previous) / 2 for alpha = 1/2.
C6_AcceptsClosedUnitInterval ==
    call.op = "lowpass_filter" =>
        /\ call.ok <=>
               \A i \in Idx : RLe(Zero, call.alpha[i]) /\ RLe(call.alpha[i], One)
        /\ call.ok =>
               /\ LowPassValues
               /\ \A i \in Idx :
                      call.alpha[i] = Zero => call.val[i] = call.previous[i]

\* C6, amended: the checked low-pass filter accepts every alpha whose
\* components all lie in the half-open interval (0, 1] and fails for a
\* component <= 0 or > 1; it returns current for alpha = 1 and
\* (current + previous) / 2 for alpha = 1/2.
C6_AcceptsHalfOpenUnitInterval ==
    call.op = "lowpass_filter" =>
        /\ call.ok <=>
               \A i \in Idx : RLt(Zero, call.alpha[i]) /\ RLe(call.alpha[i], One)
        /\ call.ok => LowPassValues

\* C6, witness: an accepted call with one component of alpha at 1 and the
\* other at 1/2, on different current and previous vectors.
C6_Witness ==
    /\ call.op = "lowpass_filter"
    /\ call.ok
    /\ call.alpha = <<One, Half>>
    /\ \A i \in Idx : call.current[i] # call.previous[i]

C8_UpdateValidatesArguments ==
    (/\ call.op = "update"
     /\ \/ ~assert_alpha(call.alpha)
        \/ RLe(call.rate, Zero)
        \/ RLt(call.mincutoff, Zero)
        \/ RLt(call.beta, Zero))
    => ~call.ok

\* 2 pi cutoff / (2 pi cutoff + rate), which is 1 / (1 + rate / (2 pi cutoff))
SmoothingFactor(rate, cutoff) ==
    RDiv(RMul(two_pi, cutoff), RAdd(RMul(two_pi, cutoff), rate))

\* a x + (1 - a) y
Mix(a, x, y) == RAdd(RMul(a, x), RMul(RSub(One, a), y))

\* C9: a successful update turns (raw0, filtered0, deriv0) into
\* deriv1 = alpha (raw - raw0) rate + (1 - alpha) deriv0,
\* filtered1 = a raw + (1 - a) filtered0 with a the smoothing factor of rate
\* and the cutoff mincutoff + beta |deriv1| of the new derivative, and
\* raw1 = raw; the checked form gives what the unchecked form gives.
C9_UpdateFormulas ==
    (call.op \in {"update", "update_unchecked"} /\ call.ok) =>
        /\ st.raw = call.raw
        /\ \A i \in Idx :
            /\ st.derivate[i]
                   = Mix(call.alpha[i],
                         RMul(RSub(call.raw[i], call.pre.raw[i]), call.rate),
                         call.pre.derivate[i])
            /\ st.filtered[i]
                   = Mix(SmoothingFactor(call.rate,
                             RAdd(call.mincutoff,
                                  RMul(call.beta, RAbs(st.derivate[i])))),
                         call.raw[i],
                         call.pre.filtered[i])
        /\ call.op = "update" =>
               st = update_unchecked(call.pre, call.raw, call.alpha, call.rate,
                                     call.mincutoff, call.beta)

\* C9, witness: a successful checked update with beta > 0 of a state whose
\* derivative is not zero and whose filtered value differs from its raw
\* value, by a sample that differs from the previous one.
C9_Witness ==
    /\ call.op = "update"
    /\ call.ok
    /\ RGt(call.beta, Zero)
    /\ \A i \in Idx :
        /\ call.pre.derivate[i] # Zero
        /\ call.pre.filtered[i] # call.pre.raw[i]
        /\ call.raw[i] # call.pre.raw[i]
        /\ st.derivate[i] # call.pre.derivate[i]

\* |x - c|
Dist(x, c) == RAbs(RSub(x, c))

\* the side of c that x is on: -1 below, 0 at c, 1 above
Side(x, c) == ISign(RSub(x, c)[1])

\* C10: when filter() is fed the sample c, in each component |filtered - c|
\* does not grow and filtered does not cross to the other side of c; when the
\* sample before was c too, the magnitude of the smoothed derivative shrinks
\* by the factor 1 - derivative_alpha.
C10_ConstantInput ==
    call.op = "filter" =>
        \A i \in Idx :
            /\ RLe(Dist(st.filtered[i], call.raw[i]),
                   Dist(call.pre.filtered[i], call.raw[i]))
            /\ Side(st.filtered[i], call.raw[i])
                   * Side(call.pre.filtered[i], call.raw[i]) >= 0
            /\ call.pre.raw = call.raw =>
                   RAbs(st.derivate[i])
                       = RMul(RSub(One, call.alpha[i]), RAbs(call.pre.derivate[i]))

\* C10, witness: the second filter() call with the same sample, on a state
\* whose derivative is not zero and whose filtered value is still away from
\* the sample, and moves towards it.
C10_Witness ==
    /\ call.op = "filter"
    /\ call.pre.raw = call.raw
    /\ \A i \in Idx :
        /\ call.pre.derivate[i] # Zero
        /\ call.pre.filtered[i] # call.raw[i]
        /\ RLt(Dist(st.filtered[i], call.raw[i]),
               Dist(call.pre.filtered[i], call.raw[i]))

\* the smoothing factors of the sample stage of the last filter() call, one
\* for each component, from the cutoff of the derivative it left
SampleCutoff == get_cutoff(st, call.mincutoff, call.beta)

SampleAlpha == [i \in Idx |-> get_alpha_unchecked(call.rate, SampleCutoff[i])]

\* C11: every smoothing factor that filter() consumes lies in (0, 1], for
\* any filter reached from default() through setters: the stored derivative
\* alpha and the sample alpha of every component are > 0 and <= 1; the
\* cutoff is >= mincutoff and does not decrease when |derivative| grows.
C11_FilterAlphasInRange ==
    call.op = "filter" =>
        /\ assert_alpha(call.alpha)
        /\ assert_alpha(SampleAlpha)
        /\ \A i \in Idx : RGe(SampleCutoff[i], call.mincutoff)
        /\ \A i, j \in Idx :
               RLe(RAbs(st.derivate[i]), RAbs(st.derivate[j]))
                   => RLe(SampleCutoff[i], SampleCutoff[j])

\* lo <= x <= hi for the two values in either order
Between(x, a, b) ==
    \/ RLe(a, x) /\ RLe(x, b)
    \/ RLe(b, x) /\ RLe(x, a)

\* C12: no overshoot.  After an update that returned (its smoothing factors
\* are then in (0, 1]), every component of data() lies between the filtered
\* value before the call and the raw sample of the call, both included; in
\* every state every component of data() lies within the range spanned by
\* the initial sample and the raw samples fed so far; and raw() is the
\* sample fed last: the one of the last update that returned, or the one
\* the state was constructed from.
C12_NoOvershoot ==
    /\ \A i \in Idx :
           \E lo \in fed, hi \in fed :
               RLe(lo[i], st.filtered[i]) /\ RLe(st.filtered[i], hi[i])
    /\ st.raw \in fed
    /\ call.op = "new" => st.raw = call.state
    /\ call.op \in {"update", "update_unchecked"} =>
           IF call.ok
           THEN /\ st.raw = call.raw
                /\ \A i \in Idx :
                       Between(st.filtered[i], call.pre.filtered[i], call.raw[i])
           ELSE st.raw = call.pre.raw /\ st.filtered = call.pre.filtered

\* C12, witness: the second update in a row brings the state back towards
\* the sample it started from: data() is strictly between its value before
\* the call and the raw sample in every component, and strictly inside the
\* range of the two samples fed.
C12_Witness ==
    /\ call.op \in {"update", "update_unchecked"}
    /\ call.ok
    /\ steps = 2
    /\ Cardinality(fed) = 2
    /\ \A i \in Idx :
        /\ st.filtered[i] # call.pre.filtered[i]
        /\ st.filtered[i] # call.raw[i]
        /\ call.pre.filtered[i] # call.pre.raw[i]
        /\ \A s \in fed : st.filtered[i] # s[i]

====
